---- MODULE Spec2Model ----
(***************************************************************************)
(* The markdown-to-JSON feed build of the blog (markdownToJson and its     *)
(* helpers getSortedPostsData and getPostData), as a state machine: one    *)
(* run of the script over a content directory, from the readdirSync call   *)
(* to the exit of the process.                                             *)
(*                                                                         *)
(* JavaScript values are records tagged by their type (field t).  Time     *)
(* values are counted in days since the epoch, the code's milliseconds     *)
(* divided by 86400000: every date of the model is a midnight UTC, and     *)
(* TLC's integers are 32 bits wide.                                        *)
(***************************************************************************)
EXTENDS Integers, Sequences, FiniteSets, TLC

VARIABLES
    dir,        \* the entries of contentDir, in the order readdirSync lists them
    pc,         \* the position of the run
    next,       \* index into fileNames of the next getPostData call
    fileNames,  \* the '.md' entries that are mapped over
    results,    \* the promises returned by getPostData, settled, in call order
    posts,      \* the value getSortedPostsData resolves to
    stdout,     \* the lines written by console.log
    stderr,     \* what the runtime prints for the rejected promise
    before,     \* the target file _posts.json as the run found it
    out,        \* the target file _posts.json
    pending,    \* the part of the document writeFileSync has still to write
    cause,      \* what rejected the promise of markdownToJson, if anything
    exitCode,   \* the exit code of the process, once it has exited
    engine,     \* the sort of the runtime the script runs under
    first,      \* the target file as the first of two runs left it
    page,       \* the last page load of the site built from the feed
    writes      \* the number of writeFileSync calls this run has made

vars == <<dir, pc, next, fileNames, results, posts, stdout, stderr, before,
          out, pending, cause, exitCode, engine, first, page, writes>>

-----------------------------------------------------------------------------
(* Bounds *)

\* the largest number of entries of the content directory
MaxFiles == 3

\* the same, for the runs whose end is checked under fairness
LiveMaxFiles == 2

-----------------------------------------------------------------------------
(* JavaScript values *)

Undefined == [t |-> "undefined"]
NaN == [t |-> "NaN"]
Null == [t |-> "null"]
Bool(b) == [t |-> "boolean", v |-> b]
Str(s) == [t |-> "string", v |-> s]
Num(n) == [t |-> "number", v |-> n]
DateObj(n) == [t |-> "Date", v |-> n]
Arr(s) == [t |-> "array", v |-> s]

\* ToBoolean, as the filter callback's result is used
Truthy(x) ==
    CASE x.t = "undefined" -> FALSE
      [] x.t = "null" -> FALSE
      [] x.t = "NaN" -> FALSE
      [] x.t = "boolean" -> x.v
      [] x.t = "string" -> x.v # ""
      [] x.t = "number" -> x.v # 0
      [] OTHER -> TRUE

\* ToNumber of a date value: a Date gives its time value
IsNumeric(x) == x.t \in {"number", "Date"}

\* a < b on two date values: false as soon as one side is NaN
Lt(a, b) == IsNumeric(a) /\ IsNumeric(b) /\ a.v < b.v

-----------------------------------------------------------------------------
(* Strings *)

Char(s, i) == SubSeq(s, i, i)

Digits == {"0", "1", "2", "3", "4", "5", "6", "7", "8", "9"}

DigitVal(c) ==
    CASE c = "0" -> 0 [] c = "1" -> 1 [] c = "2" -> 2 [] c = "3" -> 3
      [] c = "4" -> 4 [] c = "5" -> 5 [] c = "6" -> 6 [] c = "7" -> 7
      [] c = "8" -> 8 [] c = "9" -> 9

\* the decimal number written by characters i..j of s
RECURSIVE NumberAt(_, _, _)
NumberAt(s, i, j) ==
    IF j < i THEN 0 ELSE 10 * NumberAt(s, i, j - 1) + DigitVal(Char(s, j))

\* f.endsWith(suffix)
EndsWith(f, suffix) ==
    /\ Len(f) >= Len(suffix)
    /\ SubSeq(f, Len(f) - Len(suffix) + 1, Len(f)) = suffix

\* file.substring(from, to), 0-based and end-exclusive, clamped to the length
Substring(s, from, to) ==
    LET hi == IF to > Len(s) THEN Len(s) ELSE to
    IN  SubSeq(s, from + 1, hi)

\* t.trim(): the string without its leading and trailing blanks
RECURSIVE TrimLeft(_)
TrimLeft(s) ==
    IF Len(s) > 0 /\ Char(s, 1) = " " THEN TrimLeft(SubSeq(s, 2, Len(s))) ELSE s

RECURSIVE TrimRight(_)
TrimRight(s) ==
    IF Len(s) > 0 /\ Char(s, Len(s)) = " "
    THEN TrimRight(SubSeq(s, 1, Len(s) - 1)) ELSE s

Trim(s) == TrimRight(TrimLeft(s))

\* s.split(','): the segments between the commas, empty ones included
RECURSIVE SplitFrom(_, _, _)
SplitFrom(s, start, i) ==
    IF i > Len(s) THEN << SubSeq(s, start, Len(s)) >>
    ELSE IF Char(s, i) = ","
         THEN << SubSeq(s, start, i - 1) >> \o SplitFrom(s, i + 1, i + 1)
         ELSE SplitFrom(s, start, i + 1)

Split(s) == SplitFrom(s, 1, 1)

-----------------------------------------------------------------------------
(* Dates *)

\* the day number of a civil date (what MakeDay and MakeDate compute)
DaysFromCivil(y, m, d) ==
    LET yy == IF m <= 2 THEN y - 1 ELSE y
        era == yy \div 400
        yoe == yy - era * 400
        mp == (m + 9) % 12
        doy == (153 * mp + 2) \div 5 + d - 1
        doe == yoe * 365 + yoe \div 4 - yoe \div 100 + doy
    IN  era * 146097 + doe - 719468

\* whether s is written YYYY-MM-DD
IsIsoDate(s) ==
    /\ Len(s) = 10
    /\ \A i \in {1, 2, 3, 4, 6, 7, 9, 10} : Char(s, i) \in Digits
    /\ Char(s, 5) = "-" /\ Char(s, 8) = "-"
    /\ NumberAt(s, 6, 7) \in 1..12
    /\ NumberAt(s, 9, 10) \in 1..31

\* Date.parse(s): the time value of a date-only ISO string (midnight UTC).
\* Any other string goes to the engine's fallback parser, which finds no
\* date in a string without a digit: NaN for the names of Catalogue.
DateParse(s) ==
    IF IsIsoDate(s)
    THEN Num(DaysFromCivil(NumberAt(s, 1, 4), NumberAt(s, 6, 7), NumberAt(s, 9, 10)))
    ELSE NaN

-----------------------------------------------------------------------------
(* Content files *)

\* what loadFront makes of a file: the header's keys and the body.  A header
\* may hold any other key as well, one named like a computed field of the
\* post included.
Front(title, published, date, tags, body) ==
    [title |-> title, published |-> published, date |-> date, tags |-> tags,
     content |-> body]

\* a file whose header block is no valid YAML: loadFront throws
Invalid == [invalid |-> TRUE]

File(name, readable, front) ==
    [name |-> name, readable |-> readable, front |-> front]

\* The files a content directory is made of.  A header's tags are a string,
\* a sequence, a key with no value (null) or left out; its date is a YAML
\* timestamp (a Date) or is left out; published is a YAML boolean or the
\* plain scalar no, which the YAML schema reads as a string.
Catalogue ==
    { File("2020-01-05-example.md", TRUE,
           Front(Str("Example"), Bool(TRUE), Undefined, Str("a, b , c"), "one")),
      File("2019-08-21-rethink-loops.md", TRUE,
           Front(Str("Loops"), Bool(TRUE), DateObj(DaysFromCivil(2020, 1, 5)),
                 Str("php,"), "two")
           @@ [slug |-> "loops", contentHtml |-> << "header", "html" >>,
               excerptHtml |-> << "header", "excerpt" >>]),
      File("2018-09-22-dart-io.md", TRUE,
           Front(Str("Dart"), Bool(FALSE), Undefined, Null, "three")),
      File("2018-11-25-dart-package.md", TRUE,
           Front(Str("Package"), Str("no"), Undefined, Str("dart, ci"), "five")),
      File("about.md", TRUE,
           Front(Str("Example"), Bool(TRUE), Undefined, Undefined, "six")),
      File("2019-01-01-broken.md", TRUE, Invalid),
      File("2019-02-02-locked.md", FALSE,
           Front(Str("Locked"), Bool(TRUE), Undefined, Undefined, "seven")),
      File("2019-03-03-list.md", TRUE,
           Front(Str("List"), Bool(TRUE), Undefined, Arr(<<"x", "y">>), "eight")),
      File("2021-03-01-untitled.md", TRUE,
           Front(Undefined, Bool(TRUE), Undefined, Undefined, "nine")),
      File("2019-05-05-notes.txt", TRUE,
           Front(Str("Notes"), Bool(TRUE), Undefined, Undefined, "ten")) }

\* the directory listings: the files of a directory have distinct names
Listings ==
    { s \in UNION { [1..n -> Catalogue] : n \in 0..MaxFiles } :
        \A i, j \in DOMAIN s : i # j => s[i].name # s[j].name }

-----------------------------------------------------------------------------
(* getPostData *)

\* Marked.parse(body) and excerptHtml(html, {pruneLength}): library calls,
\* kept as terms over their arguments
PruneLength == 250
MarkedParse(body) == << "Marked.parse", body >>
ExcerptHtml(html) == << "excerptHtml", html, PruneLength >>

\* the segments left as they are, .map(trim) forgotten
MapNoTrim(segs) == segs

MapTrim(segs) == [i \in DOMAIN segs |-> Trim(segs[i])]

\* yamlHeader.tags?.split(',').map(t => t.trim()) does not throw
TagsOk(tags) == tags.t \in {"undefined", "null", "string"}

NormalizeTags(tags) ==
    IF tags.t \in {"undefined", "null"} THEN Undefined
    ELSE Arr(MapTrim(Split(tags.v)))

\* ResolveDate with the prefix cut one character short
ResolveDateShortPrefix(headerDate, file) ==
    IF headerDate.t # "undefined" THEN headerDate
    ELSE DateParse(Substring(file, 0, 9))

\* ResolveDate with the file name asked first
ResolveDateFileNameFirst(headerDate, file) ==
    IF DateParse(Substring(file, 0, 10)) # NaN
    THEN DateParse(Substring(file, 0, 10))
    ELSE headerDate

\* yamlHeader.date ?? Date.parse(file.substring(0, 10))
ResolveDate(headerDate, file) ==
    IF headerDate.t # "undefined" THEN headerDate
    ELSE DateParse(Substring(file, 0, 10))

\* MakePost with the slug made from the title instead of the file name
MakePostSlugFromTitle(front, file) ==
    [t |-> "Post",
     title |-> front.title,
     published |-> front.published,
     content |-> front.content,
     slug |-> IF front.title.t = "string" THEN front.title.v ELSE "undefined",
     contentHtml |-> MarkedParse(front.content),
     excerptHtml |-> ExcerptHtml(MarkedParse(front.content)),
     tags |-> NormalizeTags(front.tags),
     date |-> ResolveDate(front.date, file)]

\* the keys of the object literal that follow the spread of the header
Computed(front, file) ==
    [t |-> "Post",
     slug |-> file,
     contentHtml |-> MarkedParse(front.content),
     excerptHtml |-> ExcerptHtml(MarkedParse(front.content)),
     tags |-> NormalizeTags(front.tags),
     date |-> ResolveDate(front.date, file)]

\* the object literal with the spread of the header written last
MakePostHeaderLast(front, file) == front @@ Computed(front, file)

\* the object literal returned by getPostData: the header's keys, then the
\* computed ones, which replace a header's key of the same name
MakePost(front, file) == Computed(front, file) @@ front

\* getPostData with loadFront called before the try block
GetPostDataParseOutsideTry(f) ==
    IF ~f.readable \/ "invalid" \in DOMAIN f.front
    THEN [value |-> [t |-> "rejected", error |-> "uncaught"], log |-> << >>]
    ELSE IF ~TagsOk(f.front.tags)
    THEN [value |-> Undefined, log |-> << [line |-> "exception", error |-> "TypeError"] >>]
    ELSE [value |-> MakePost(f.front, f.name), log |-> << >>]

\* getPostData with a catch block that logs nothing
GetPostDataSilentCatch(f) ==
    IF ~f.readable
    THEN [value |-> [t |-> "rejected", error |-> "readFileSync"], log |-> << >>]
    ELSE IF "invalid" \in DOMAIN f.front \/ ~TagsOk(f.front.tags)
    THEN [value |-> Undefined, log |-> << >>]
    ELSE [value |-> MakePost(f.front, f.name), log |-> << >>]

\* The settled promise of one getPostData call and the lines it logs.
\* readFileSync stands before the try block: its exception rejects the
\* promise.  An exception of loadFront or of tags.split is caught, logged
\* and turned into undefined.
GetPostData(f) ==
    IF ~f.readable
    THEN [value |-> [t |-> "rejected", error |-> "readFileSync"], log |-> << >>]
    ELSE IF "invalid" \in DOMAIN f.front
    THEN [value |-> Undefined, log |-> << [line |-> "exception", error |-> "YAMLException"] >>]
    ELSE IF ~TagsOk(f.front.tags)
    THEN [value |-> Undefined, log |-> << [line |-> "exception", error |-> "TypeError"] >>]
    ELSE [value |-> MakePost(f.front, f.name), log |-> << >>]

-----------------------------------------------------------------------------
(* getSortedPostsData *)

\* the filter on the extension forgotten
IsAnyFile(f) == TRUE

\* .filter((f) => f.endsWith('.md'))
IsMarkdown(f) == EndsWith(f.name, ".md")

\* the filter with its test negated
IsPublishedNegated(p) == p.t = "Post" /\ ~Truthy(p.published)

\* .filter((p) => p?.published)
IsPublished(p) == p.t = "Post" /\ Truthy(p.published)

\* the comparator handed to sort: it never answers 0
Compare(a, b) == IF Lt(a.date, b.date) THEN 1 ELSE -1

\* arr with the element at index from moved to index to <= from
MoveTo(arr, from, to) ==
    [i \in DOMAIN arr |->
        IF i < to \/ i > from THEN arr[i]
        ELSE IF i = to THEN arr[from] ELSE arr[i - 1]]

ReversePrefix(arr, n) ==
    [i \in DOMAIN arr |-> IF i <= n THEN arr[n + 1 - i] ELSE arr[i]]

\* Array.prototype.sort of an engine whose sort is TimSort (V8 from 7.0 on),
\* for an array below the minimum run length: the leading run is found,
\* reversed when it descends, and the rest is inserted by binary search.
RECURSIVE RunLength(_, _, _)
RunLength(arr, descending, idx) ==
    IF idx > Len(arr) THEN idx - 1
    ELSE LET order == Compare(arr[idx], arr[idx - 1])
         IN  IF (descending /\ order >= 0) \/ (~descending /\ order < 0)
             THEN idx - 1
             ELSE RunLength(arr, descending, idx + 1)

CountAndMakeRun(arr) ==
    LET descending == Compare(arr[2], arr[1]) < 0
        n == RunLength(arr, descending, 3)
    IN  [run |-> n, arr |-> IF descending THEN ReversePrefix(arr, n) ELSE arr]

RECURSIVE BinarySearch(_, _, _, _)
BinarySearch(arr, pivot, left, right) ==
    IF left >= right THEN left
    ELSE LET mid == left + (right - left) \div 2
         IN  IF Compare(pivot, arr[mid]) < 0
             THEN BinarySearch(arr, pivot, left, mid)
             ELSE BinarySearch(arr, pivot, mid + 1, right)

RECURSIVE BinaryInsertionSort(_, _)
BinaryInsertionSort(arr, start) ==
    IF start > Len(arr) THEN arr
    ELSE BinaryInsertionSort(
             MoveTo(arr, start, BinarySearch(arr, arr[start], 1, start)),
             start + 1)

TimSort(arr) ==
    IF Len(arr) < 2 THEN arr
    ELSE LET r == CountAndMakeRun(arr)
         IN  BinaryInsertionSort(r.arr, r.run + 1)

\* Array.prototype.sort of an engine that sorts a short array by plain
\* insertion (V8 before 7.0, arrays of at most ten elements)
RECURSIVE InsertionPoint(_, _, _)
InsertionPoint(arr, element, j) ==
    IF j >= 1 /\ Compare(arr[j], element) > 0
    THEN InsertionPoint(arr, element, j - 1)
    ELSE j + 1

RECURSIVE InsertionSort(_, _)
InsertionSort(arr, i) ==
    IF i > Len(arr) THEN arr
    ELSE InsertionSort(MoveTo(arr, i, InsertionPoint(arr, arr[i], i - 1)), i + 1)

\* The comparator is not a consistent one (it answers -1 for equal dates and
\* for NaN), so the order sort leaves is the engine's: one outcome per
\* engine, and one engine per runtime.
Engines == {"timsort", "insertion"}

Sort(arr, eng) ==
    IF eng = "timsort" THEN TimSort(arr) ELSE InsertionSort(arr, 2)

\* the array Promise.all resolves to, each promise's value stored at the
\* index of the promise when its reaction runs, the reactions running in
\* the given order
RECURSIVE ResolveElements(_, _, _, _)
ResolveElements(values, promises, order, k) ==
    IF k > Len(order) THEN values
    ELSE ResolveElements([values EXCEPT ![order[k]] = promises[order[k]]],
                         promises, order, k + 1)

\* Promise.all with the values pushed as the promises settle
PromiseAllInSettleOrder(promises, order) ==
    [k \in DOMAIN order |-> promises[order[k]]]

PromiseAll(promises, order) ==
    ResolveElements([i \in DOMAIN promises |-> [t |-> "pending"]],
                    promises, order, 1)

\* the order the reactions run in: every promise is settled when
\* Promise.all goes through the array, so the jobs are queued by index
CallOrder(n) == [k \in 1..n |-> k]

\* allPostsData.filter(...).map(p => p as Post).sort(...)
FilterSort(all, eng) == Sort(SelectSeq(all, IsPublished), eng)

-----------------------------------------------------------------------------
(* The feed document *)

\* JSON.stringify of a date: a Date by toJSON, NaN as null
JsonDate(d) ==
    CASE d.t = "Date" -> [t |-> "string", iso |-> d.v]
      [] d.t = "NaN" -> [t |-> "null"]
      [] OTHER -> d

\* JSON.stringify of a post: keys whose value is undefined are left out
JsonPost(p) ==
    LET optional == { k \in {"title", "published", "tags"} : p[k] = Undefined }
        keys == (DOMAIN p \ {"t"}) \ optional
    IN  [k \in keys |-> IF k = "date" THEN JsonDate(p.date) ELSE p[k]]

\* JSON.stringify({ posts }), as the chunks the file is written in
JsonStringify(ps) ==
    << [chunk |-> "{posts:["] >>
    \o [i \in DOMAIN ps |-> [chunk |-> "post", post |-> JsonPost(ps[i])]]
    \o << [chunk |-> "]}"] >>

\* the posts of a document (JSON.parse(...).posts)
ParsePosts(doc) == [i \in 1..(Len(doc) - 2) |-> doc[i + 1].post]

\* whether data is a whole document
IsDocument(data) ==
    /\ Len(data) >= 2
    /\ data[1].chunk = "{posts:["
    /\ data[Len(data)].chunk = "]}"
    /\ \A i \in 2..(Len(data) - 1) : data[i].chunk = "post"

-----------------------------------------------------------------------------
(* The site built from the feed *)

\* import { posts } from "./_posts.json"
ImportedPosts(doc) == ParsePosts(doc)

\* the index route answering with the slugs only
IndexGetSlugsOnly(ps) ==
    [status |-> 200, body |-> [i \in DOMAIN ps |-> [slug |-> ps[i].slug]]]

\* get of the index route: every request is answered with status 200 and
\* JSON.stringify(posts); the posts are JSON values and serialise to
\* themselves
IndexGet(ps) == [status |-> 200, body |-> ps]

\* preload of the index page: the body of the response, whatever its status
IndexPreload(ps) ==
    LET response == IndexGet(ps)
    IN  [kind |-> "page", status |-> response.status, posts |-> response.body]

\* The route that answers blog/<slug>.json: the post of that slug, or a
\* not-found answer when the feed has none.
SlugGet(ps, slug) ==
    IF \E j \in DOMAIN ps : ps[j].slug = slug
    THEN [status |-> 200,
          body |-> ps[CHOOSE j \in DOMAIN ps : ps[j].slug = slug]]
    ELSE [status |-> 404, body |-> [message |-> "Not found"]]

\* preload with the test on the status turned round
PostPreloadInverted(ps, slug) ==
    LET res == SlugGet(ps, slug)
    IN  IF res.status # 200
        THEN [kind |-> "page", article |-> res.body]
        ELSE [kind |-> "exception", error |-> "ReferenceError"]

\* preload of the post page.  The body of either answer is an object, so
\* `&& article` holds and the status decides.  On the other branch the
\* argument data.message is evaluated before this.error is called, and no
\* data is declared: the read throws a ReferenceError.
PostPreload(ps, slug) ==
    LET res == SlugGet(ps, slug)
    IN  IF res.status = 200
        THEN [kind |-> "page", article |-> res.body]
        ELSE [kind |-> "exception", error |-> "ReferenceError"]

-----------------------------------------------------------------------------
(* The run *)

\* no first run yet, no page loaded yet
NoRun == [run |-> "none"]
NoPage == [route |-> "none"]

\* the slugs asked for: the names of the directory and one of no file
Slugs == { dir[i].name : i \in DOMAIN dir } \cup { "2000-01-01-missing.md" }

\* the target file before the run: missing, or the document of an earlier build
Missing == [exists |-> FALSE, data |-> << >>]

Earlier ==
    [exists |-> TRUE,
     data |-> JsonStringify(<< MakePost(Front(Str("Old"), Bool(TRUE), Undefined,
                                              Undefined, "zero"),
                                        "2015-01-01-old.md") >>)]

Init ==
    /\ dir \in Listings
    /\ before \in {Missing, Earlier}
    /\ out = before
    /\ pc = "readdir"
    /\ next = 1
    /\ fileNames = << >>
    /\ results = << >>
    /\ posts = << >>
    /\ stdout = << >>
    /\ stderr = << >>
    /\ pending = << >>
    /\ cause = "none"
    /\ exitCode = -1
    /\ engine \in Engines
    /\ first = NoRun
    /\ page = NoPage
    /\ writes = 0

\* fs.readdirSync(contentDir) and the filter on '.md'; an exception of
\* readdirSync rejects the promise of getSortedPostsData
ReadDir ==
    /\ pc = "readdir"
    /\ \/ /\ pc' = "rejected"
          /\ cause' = "readdirSync"
          /\ UNCHANGED fileNames
       \/ /\ fileNames' = SelectSeq(dir, IsMarkdown)
          /\ pc' = "map"
          /\ UNCHANGED cause
    /\ UNCHANGED <<dir, before, engine, first, writes, page, next, results, posts, stdout, stderr, out, pending, exitCode>>

\* one call of getPostData by .map: the function holds no await, so each
\* call runs to its end before the next one starts
CallGetPostData ==
    /\ pc = "map"
    /\ next <= Len(fileNames)
    /\ LET r == GetPostData(fileNames[next])
       IN  /\ results' = Append(results, r.value)
           /\ stdout' = stdout \o r.log
    /\ next' = next + 1
    /\ UNCHANGED <<dir, before, engine, first, writes, page, pc, fileNames, posts, stderr, out, pending, cause, exitCode>>

\* Promise.all not awaited until every call has been made
AwaitAllEarly ==
    /\ pc = "map"
    /\ IF \E i \in DOMAIN results : results[i].t = "rejected"
       THEN pc' = "rejected" /\ cause' = "getPostData" /\ UNCHANGED results
       ELSE /\ pc' = "sort"
            /\ results' = PromiseAll(results, CallOrder(Len(results)))
            /\ UNCHANGED cause
    /\ UNCHANGED <<dir, before, engine, first, writes, page, next, fileNames, posts, stdout, stderr, out,
                   pending, exitCode>>

\* await Promise.all(...): rejected as soon as one of the promises is
AwaitAll ==
    /\ pc = "map"
    /\ next > Len(fileNames)
    /\ IF \E i \in DOMAIN results : results[i].t = "rejected"
       THEN pc' = "rejected" /\ cause' = "getPostData" /\ UNCHANGED results
       ELSE /\ pc' = "sort"
            /\ results' = PromiseAll(results, CallOrder(Len(results)))
            /\ UNCHANGED cause
    /\ UNCHANGED <<dir, before, engine, first, writes, page, next, fileNames, posts, stdout, stderr, out,
                   pending, exitCode>>

\* the filter, the cast and the sort of getSortedPostsData
SortPosts ==
    /\ pc = "sort"
    /\ posts' = FilterSort(results, engine)
    /\ pc' = "log"
    /\ UNCHANGED <<dir, before, engine, first, writes, page, next, fileNames, results, stdout, stderr, out, pending,
                   cause, exitCode>>

\* the target written from inside the logging loop as well
LogPostsAndWrite ==
    /\ pc = "log"
    /\ stdout' = stdout \o [i \in DOMAIN posts |-> [line |-> "ok", slug |-> posts[i].slug]]
    /\ out' = [exists |-> TRUE, data |-> JsonStringify(posts)]
    /\ writes' = writes + 1
    /\ pc' = "open"
    /\ UNCHANGED <<dir, before, engine, first, page, next, fileNames, results,
                   posts, stderr, pending, cause, exitCode>>

\* posts.map((p) => console.log(...))
LogPosts ==
    /\ pc = "log"
    /\ stdout' = stdout \o [i \in DOMAIN posts |-> [line |-> "ok", slug |-> posts[i].slug]]
    /\ pc' = "open"
    /\ UNCHANGED <<dir, before, engine, first, writes, page, next, fileNames, results, posts, stderr, out, pending,
                   cause, exitCode>>

\* the file opened with flag 'a': what is there is kept
OpenTargetAppend ==
    /\ pc = "open"
    /\ out' = [exists |-> TRUE, data |-> out.data]
    /\ pending' = JsonStringify(posts)
    /\ pc' = "write"
    /\ writes' = writes + 1
    /\ UNCHANGED <<dir, before, engine, first, page, next, fileNames, results,
                   posts, stdout, stderr, exitCode, cause>>

\* fs.writeFileSync, first half: the file is opened with flag 'w', which
\* creates it or cuts it to length 0; when the open fails nothing is touched
OpenTarget ==
    /\ pc = "open"
    /\ \/ /\ pc' = "rejected"
          /\ cause' = "writeFileSync"
          /\ UNCHANGED <<out, pending>>
       \/ /\ out' = [exists |-> TRUE, data |-> << >>]
          /\ pending' = JsonStringify(posts)
          /\ pc' = "write"
          /\ UNCHANGED cause
    /\ writes' = writes + 1
    /\ UNCHANGED <<dir, before, engine, first, page, next, fileNames, results, posts, stdout, stderr, exitCode>>

\* fs.writeFileSync, second half: the document is written until nothing is
\* left; a failed write (a full disk, an I/O error) throws with the file as
\* it is
WriteTarget ==
    /\ pc = "write"
    /\ \/ /\ pending # << >>
          /\ out' = [out EXCEPT !.data = Append(@, Head(pending))]
          /\ pending' = Tail(pending)
          /\ UNCHANGED <<pc, cause>>
       \/ /\ pending # << >>
          /\ pc' = "rejected"
          /\ cause' = "writeFileSync"
          /\ UNCHANGED <<out, pending>>
       \/ /\ pending = << >>
          /\ pc' = "resolved"
          /\ UNCHANGED <<out, pending, cause>>
    /\ UNCHANGED <<dir, before, engine, first, writes, page, next, fileNames, results, posts, stdout, stderr, exitCode>>

\* the end of the script after a resolved promise
ExitResolved ==
    /\ pc = "resolved"
    /\ pc' = "exited"
    /\ exitCode' = 0
    /\ UNCHANGED <<dir, before, engine, first, writes, page, next, fileNames, results, posts, stdout, stderr, out,
                   pending, cause>>

\* the rejection swallowed: the process ends and prints nothing
ExitRejectedSilent ==
    /\ pc = "rejected"
    /\ pc' = "exited"
    /\ exitCode' = 0
    /\ UNCHANGED <<dir, before, engine, first, writes, page, next, fileNames,
                   results, posts, stdout, stderr, out, pending, cause>>

\* The end of the script after a rejected promise.  markdownToJson() is
\* called without await inside try: the call returns the promise, the catch
\* block sees no exception, and the rejection stays unhandled.  The runtime
\* prints it; whether it then exits with 1 or warns and exits with 0 is the
\* runtime's (Node.js from 15 on: 1; before: 0).
ExitRejected ==
    /\ pc = "rejected"
    /\ pc' = "exited"
    /\ stderr' = Append(stderr, [line |-> "unhandled rejection", error |-> cause])
    /\ exitCode' \in {0, 1}
    /\ UNCHANGED <<dir, before, engine, first, writes, page, next, fileNames, results, posts, stdout, out, pending, cause>>

\* a second run of the script over the same directory, after a first one
\* that wrote the feed
Rerun ==
    /\ pc = "exited"
    /\ cause = "none"
    /\ first = NoRun
    /\ first' = out
    /\ before' = out
    /\ pc' = "readdir"
    /\ next' = 1
    /\ fileNames' = << >>
    /\ results' = << >>
    /\ posts' = << >>
    /\ stdout' = << >>
    /\ pending' = << >>
    /\ exitCode' = -1
    /\ writes' = 0
    /\ UNCHANGED <<dir, out, stderr, cause, engine, page>>

\* a visit of the page of one post, on the site built from the written feed
\* (the import of a file that is no JSON document fails the site's build)
LoadPost ==
    /\ pc \in {"exited", "served"}
    /\ cause = "none"
    /\ IsDocument(out.data)
    /\ \E slug \in Slugs :
          page' = [route |-> "post", slug |-> slug,
                   result |-> PostPreload(ImportedPosts(out.data), slug)]
    /\ pc' = "served"
    /\ UNCHANGED <<dir, before, engine, first, writes, next, fileNames, results, posts,
                   stdout, stderr, out, pending, cause, exitCode>>

\* a visit of the index page
LoadIndex ==
    /\ pc \in {"exited", "served"}
    /\ cause = "none"
    /\ IsDocument(out.data)
    /\ page' = [route |-> "index",
                result |-> IndexPreload(ImportedPosts(out.data))]
    /\ pc' = "served"
    /\ UNCHANGED <<dir, before, engine, first, writes, next, fileNames, results, posts,
                   stdout, stderr, out, pending, cause, exitCode>>

Next ==
    \/ ReadDir
    \/ CallGetPostData
    \/ AwaitAll
    \/ SortPosts
    \/ LogPosts
    \/ OpenTarget
    \/ WriteTarget
    \/ ExitResolved
    \/ ExitRejected
    \/ Rerun
    \/ LoadPost
    \/ LoadIndex

Spec == Init /\ [][Next]_vars

\* The steps of the script itself.  The process runs on its own from the
\* call of markdownToJson to its exit, every call in it being synchronous:
\* a step that can be taken is taken.  A second run and the page loads are
\* somebody's choice.
Run ==
    \/ ReadDir
    \/ CallGetPostData
    \/ AwaitAll
    \/ SortPosts
    \/ LogPosts
    \/ OpenTarget
    \/ WriteTarget
    \/ ExitResolved
    \/ ExitRejected

LiveInit == Init /\ Len(dir) <= LiveMaxFiles

FairSpec == LiveInit /\ [][Next]_vars /\ WF_vars(Run)

-----------------------------------------------------------------------------
(* Notions the properties are stated in *)

\* a >= b on two date values: false as soon as one side is NaN
Ge(a, b) == IsNumeric(a) /\ IsNumeric(b) /\ a.v >= b.v

\* the run has written the whole document
FeedWritten == pc \in {"resolved", "exited", "served"} /\ cause = "none"

\* the posts of the written feed
Feed == ParsePosts(out.data)

\* the promises of all getPostData calls are there
Ingested == pc \notin {"readdir", "map"} /\ cause # "readdirSync"

\* the lines of stdout that log a caught exception
FailureLines == { i \in DOMAIN stdout : stdout[i].line = "exception" }

\* a file that getPostData turns into a post
WellFormed(f) ==
    /\ f.readable
    /\ "invalid" \notin DOMAIN f.front
    /\ f.front.tags.t \in {"undefined", "null", "string"}

HasInvalidHeader(f) == f.readable /\ "invalid" \in DOMAIN f.front

PublishedTrue(f) ==
    /\ "invalid" \notin DOMAIN f.front
    /\ f.front.published.t = "boolean"
    /\ f.front.published.v

\* the index at which readdirSync listed the file called name
ScanIndex(name) == CHOOSE i \in DOMAIN dir : dir[i].name = name

\* the civil date <<year, month, day>> of a day number
CivilFromDays(z) ==
    LET zz == z + 719468
        era == zz \div 146097
        doe == zz - era * 146097
        yoe == (doe - doe \div 1460 + doe \div 36524 - doe \div 146096) \div 365
        doy == doe - (365 * yoe + yoe \div 4 - yoe \div 100)
        mp == (5 * doy + 2) \div 153
        d == doy - (153 * mp + 2) \div 5 + 1
        m == IF mp < 10 THEN mp + 3 ELSE mp - 9
        y == yoe + era * 400 + (IF m <= 2 THEN 1 ELSE 0)
    IN  << y, m, d >>

-----------------------------------------------------------------------------
(* Properties of the feed *)

\* C1: in the written feed, every '.md' file of the directory that
\* getPostData turned into a post and whose header has published = true has
\* exactly one entry, the one whose slug is the file's name.
C1_PublishedFileHasOneEntry ==
    FeedWritten =>
        \A i \in DOMAIN dir :
            ( /\ EndsWith(dir[i].name, ".md")
              /\ PublishedTrue(dir[i])
              /\ \E k \in DOMAIN results :
                    fileNames[k] = dir[i] /\ results[k].t = "Post" )
            => Cardinality({ j \in DOMAIN Feed : Feed[j].slug = dir[i].name }) = 1

\* a feed written from a directory of three published posts
C1_Witness ==
    /\ FeedWritten
    /\ Len(dir) = 3
    /\ \A i \in DOMAIN dir : PublishedTrue(dir[i]) /\ EndsWith(dir[i].name, ".md")
    /\ Len(Feed) = 3

\* C2: every post of the written feed has published = true, and a file
\* whose header has published = false or no published key has no entry
\* under its name.
C2_FeedPostsHavePublishedTrue ==
    FeedWritten =>
        /\ \A j \in DOMAIN Feed :
              Feed[j].published.t = "boolean" /\ Feed[j].published.v
        /\ \A i \in DOMAIN dir :
              ( /\ "invalid" \notin DOMAIN dir[i].front
                /\ dir[i].front.published \in {Bool(FALSE), Undefined} )
              => \A j \in DOMAIN Feed : Feed[j].slug # dir[i].name

\* C3: the posts of the written feed are in descending order of date:
\* the date of each one is >= the date of the one after it.
C3_FeedDescendingByDate ==
    FeedWritten =>
        \A i \in 1..(Len(posts) - 1) : Ge(posts[i].date, posts[i + 1].date)

\* C4: two posts of the written feed with equal dates stand in the order in
\* which readdirSync listed their files.
C4_TiesKeepScanOrder ==
    FeedWritten =>
        \A i, j \in DOMAIN posts :
            ( /\ i < j
              /\ IsNumeric(posts[i].date) /\ IsNumeric(posts[j].date)
              /\ posts[i].date.v = posts[j].date.v )
            => ScanIndex(posts[i].slug) < ScanIndex(posts[j].slug)

-----------------------------------------------------------------------------
(* Properties of the failures *)

\* a directory of one well-formed published post and one file whose header
\* block is invalid
C5_Directory ==
    /\ Len(dir) = 2
    /\ \E g, b \in DOMAIN dir :
        /\ IsMarkdown(dir[g]) /\ WellFormed(dir[g]) /\ PublishedTrue(dir[g])
        /\ IsMarkdown(dir[b]) /\ HasInvalidHeader(dir[b])

\* C5: over such a directory no getPostData call rejects the run, exactly
\* one failure is logged, and the written feed is exactly the well-formed
\* post; the run that wrote it exits with 0.
C5_InvalidHeaderIsSkipped ==
    C5_Directory =>
        /\ cause # "getPostData"
        /\ Ingested => Cardinality(FailureLines) = 1
        /\ FeedWritten =>
              /\ Len(Feed) = 1
              /\ \E g \in DOMAIN dir :
                    WellFormed(dir[g]) /\ Feed[1].slug = dir[g].name
        /\ (pc = "exited" /\ cause = "none") => exitCode = 0

\* the feed of such a directory, written
C5_Witness == C5_Directory /\ FeedWritten /\ pc = "exited" /\ Len(Feed) = 1

\* C6: a file that cannot be read is skipped: unless the directory cannot
\* be read or the target cannot be written, the run ends with the feed of
\* the other files written.
C6_UnreadableFileIsSkipped ==
    (pc = "exited" /\ cause \notin {"readdirSync", "writeFileSync"}) =>
        /\ cause = "none"
        /\ out.exists /\ out.data = JsonStringify(posts)

\* C7: a run that fails on the directory or on the target ends with a
\* diagnostic and a non-zero exit code, and leaves no feed of its own.
C7_FatalErrorIsReported ==
    (pc = "exited" /\ cause \in {"readdirSync", "writeFileSync"}) =>
        /\ stderr # << >>
        /\ exitCode # 0
        /\ ~(out # before /\ IsDocument(out.data))

\* C8: in every state the target file is a whole document or is as the run
\* found it.
C8_TargetWholeOrUntouched ==
    out = before \/ (out.exists /\ IsDocument(out.data))

-----------------------------------------------------------------------------
(* Properties of the dates *)

\* the first ten characters of the name of the k-th ingested file
Prefix(k) == Substring(fileNames[k].name, 0, 10)

\* getPostData is being mapped over fileNames: results grows here and is
\* left as it is from then on
Mapping == pc = "map"

\* C9: a post whose header has no date and whose file name starts with
\* YYYY-MM-DD has the time value of that calendar date (midnight UTC); for
\* "2020-01-05-example.md" that is day 18266, 1578182400000 ms.
C9_DateFromFileName ==
    \A k \in DOMAIN results :
        ( /\ Mapping
          /\ results[k].t = "Post"
          /\ fileNames[k].front.date = Undefined
          /\ IsIsoDate(Prefix(k)) )
        => /\ results[k].date.t = "number"
           /\ CivilFromDays(results[k].date.v)
                = << NumberAt(Prefix(k), 1, 4), NumberAt(Prefix(k), 6, 7),
                     NumberAt(Prefix(k), 9, 10) >>
           /\ fileNames[k].name = "2020-01-05-example.md"
                => results[k].date = Num(18266)

\* the post of "2020-01-05-example.md", dated by its name
C9_Witness ==
    \E k \in DOMAIN results :
        /\ results[k].t = "Post"
        /\ fileNames[k].name = "2020-01-05-example.md"
        /\ fileNames[k].front.date = Undefined
        /\ results[k].date = Num(18266)

\* C10: a post whose header has a date has that date, whatever the file
\* name; the date comes from the file name only when the header has none.
C10_HeaderDateWins ==
    \A k \in DOMAIN results :
        (Mapping /\ results[k].t = "Post") =>
            /\ fileNames[k].front.date # Undefined
                => results[k].date = fileNames[k].front.date
            /\ results[k].date # fileNames[k].front.date
                => /\ fileNames[k].front.date = Undefined
                   /\ results[k].date = DateParse(Prefix(k))

\* a post whose header date is another day than the one in its file name
C10_Witness ==
    \E k \in DOMAIN results :
        /\ results[k].t = "Post"
        /\ fileNames[k].front.date.t = "Date"
        /\ IsIsoDate(Prefix(k))
        /\ DateParse(Prefix(k)).v # fileNames[k].front.date.v
        /\ results[k].date = fileNames[k].front.date

\* C11: a file with no date in its header and no YYYY-MM-DD at the start of
\* its name is a failure of getPostData: no post is returned for it, and it
\* has no entry in the written feed.
C11_UndatedFileIsSkipped ==
    /\ \A k \in DOMAIN results :
          ( /\ Mapping
            /\ fileNames[k].readable
            /\ "invalid" \notin DOMAIN fileNames[k].front
            /\ fileNames[k].front.date = Undefined
            /\ ~IsIsoDate(Prefix(k)) )
          => results[k].t # "Post"
    /\ FeedWritten =>
          \A j \in DOMAIN Feed : Feed[j].date.t # "null"

-----------------------------------------------------------------------------
(* Properties of the tags *)

\* C12: the header tags: a, b , c gives the post the tags a, b, c in that
\* order, and so it stands in the written feed.
C12_TagsAreSplitAndTrimmed ==
    /\ \A k \in DOMAIN results :
          ( /\ Mapping
            /\ results[k].t = "Post"
            /\ fileNames[k].front.tags = Str("a, b , c") )
          => results[k].tags = Arr(<< "a", "b", "c" >>)
    /\ FeedWritten =>
          \A i \in DOMAIN dir :
              ( /\ "invalid" \notin DOMAIN dir[i].front
                /\ dir[i].front.tags = Str("a, b , c") )
              => \A j \in DOMAIN Feed :
                    Feed[j].slug = dir[i].name
                    => Feed[j].tags = Arr(<< "a", "b", "c" >>)

\* the post of a header with tags: a, b , c, in the written feed
C12_Witness ==
    /\ FeedWritten
    /\ \E j \in DOMAIN Feed :
          /\ Feed[j].slug = "2020-01-05-example.md"
          /\ Feed[j].tags = Arr(<< "a", "b", "c" >>)

\* C13: no tag of a post is the empty string.
C13_NoEmptyTag ==
    \A k \in DOMAIN results :
        ( /\ Mapping
          /\ results[k].t = "Post"
          /\ results[k].tags.t = "array" )
        => \A n \in DOMAIN results[k].tags.v : results[k].tags.v[n] # ""

-----------------------------------------------------------------------------
(* Properties of the slugs *)

\* C14: no two posts of the written feed have the same slug.
C14_SlugsAreUnique ==
    FeedWritten =>
        \A i, j \in DOMAIN Feed : i # j => Feed[i].slug # Feed[j].slug

\* a written feed of at least two posts, two of them with the same title
C14_Witness ==
    /\ FeedWritten
    /\ \E i, j \in DOMAIN Feed :
          /\ i # j
          /\ "title" \in DOMAIN Feed[i] /\ "title" \in DOMAIN Feed[j]
          /\ Feed[i].title = Feed[j].title

-----------------------------------------------------------------------------
(* Properties of the site *)

\* the file of the directory called name
FileNamed(name) == dir[CHOOSE i \in DOMAIN dir : dir[i].name = name]

\* a '.md' file of the directory that is published and becomes a post
IsPublishedFile(name) ==
    /\ \E i \in DOMAIN dir : dir[i].name = name
    /\ EndsWith(name, ".md")
    /\ WellFormed(FileNamed(name))
    /\ PublishedTrue(FileNamed(name))

\* what the header of f and its name say, as JSON has it: the title, the
\* tags (split and trimmed) and the date (an ISO string for a header date,
\* else the time value read from the name)
HeaderSays(f, article) ==
    /\ IF f.front.title = Undefined THEN "title" \notin DOMAIN article
       ELSE article.title = f.front.title
    /\ IF f.front.tags \in {Undefined, Null} THEN "tags" \notin DOMAIN article
       ELSE article.tags = Arr(MapTrim(Split(f.front.tags.v)))
    /\ IF f.front.date.t = "Date"
       THEN article.date = [t |-> "string", iso |-> f.front.date.v]
       ELSE article.date = JsonDate(DateParse(Substring(f.name, 0, 10)))

C16_AbsentSlugIsNotFound ==
    ( /\ page.route = "post"
      /\ \A j \in DOMAIN Feed : Feed[j].slug # page.slug )
    => /\ page.result.kind = "error"
       /\ page.result.status = 404

\* C17: the index page gets status 200 and the posts of the written feed,
\* all of them and in the order of the file.
C17_IndexReturnsTheFeed ==
    page.route = "index" =>
        /\ page.result.status = 200
        /\ page.result.posts = ParsePosts(out.data)

\* the index of a feed of three posts, loaded
C17_Witness ==
    /\ page.route = "index"
    /\ Len(page.result.posts) = 3
    /\ page.result.status = 200

-----------------------------------------------------------------------------
(* Properties of two builds *)

\* what a build of the listing d writes under the run's engine
FeedOf(d) ==
    LET names == SelectSeq(d, IsMarkdown)
        all == [k \in DOMAIN names |-> GetPostData(names[k]).value]
    IN  JsonStringify(FilterSort(all, engine))

\* the listings of the files of dir, in every order
Reorderings ==
    { d \in [DOMAIN dir -> { dir[i] : i \in DOMAIN dir }] :
        \A i, j \in DOMAIN d : i # j => d[i] # d[j] }

\* C18: the second of two runs over the unchanged directory leaves the
\* target file as the first one left it.
C18_SecondRunWritesTheSame ==
    (first # NoRun /\ FeedWritten) => out = first

\* a second run that has written a feed of two posts
C18_Witness == first # NoRun /\ FeedWritten /\ Len(Feed) >= 2 /\ pc = "exited"

\* C19: the written file is the document of the posts of this run and
\* nothing else, whatever the file was before; the second run, which finds
\* another file than the first one found, leaves the same file.
C19_WriteReplacesTheFile ==
    FeedWritten =>
        /\ out = [exists |-> TRUE, data |-> JsonStringify(posts)]
        /\ first # NoRun => (before \notin {Missing, Earlier} /\ out = first)

\* a feed written over the document of an earlier build
C19_Witness ==
    /\ FeedWritten
    /\ before = Earlier
    /\ Len(posts) >= 1
    /\ \A j \in DOMAIN Feed : Feed[j].slug # "2015-01-01-old.md"

\* C20: the written feed is the one a build writes from the same files
\* listed in any other order.
C20_FeedIgnoresScanOrder ==
    (FeedWritten /\ pc = "exited") =>
        \A d \in Reorderings : FeedOf(d) = out.data

-----------------------------------------------------------------------------
(* Properties of the ingestion *)

\* the promises of the getPostData calls, as a run that makes the calls one
\* after the other in the order of the listing gets them
Sequential == [k \in DOMAIN fileNames |-> GetPostData(fileNames[k]).value]

\* C21: in whatever order the promises of the getPostData calls settle,
\* the array that is filtered and sorted is the one of the sequential run,
\* and the written feed is the document of that array filtered and sorted.
C21_FeedIgnoresCompletionOrder ==
    (FeedWritten /\ pc = "resolved") =>
        LET sequential == Sequential
        IN  /\ \A order \in Permutations(DOMAIN fileNames) :
                  PromiseAll(sequential, order) = sequential
            /\ out.data = JsonStringify(FilterSort(sequential, engine))

\* a feed written with two posts of the same date, from three files
C21_Witness ==
    /\ FeedWritten /\ pc = "resolved"
    /\ Len(fileNames) = 3
    /\ \E i, j \in DOMAIN posts :
          /\ i # j
          /\ IsNumeric(posts[i].date) /\ IsNumeric(posts[j].date)
          /\ posts[i].date.v = posts[j].date.v

\* the calls of getPostData that returned a post, and those that failed
\* (an exception caught and logged, or the promise rejected)
IngestedOk == { k \in DOMAIN results : results[k].t = "Post" }
IngestedFailed == { k \in DOMAIN results : results[k].t # "Post" }

\* the lines of stdout that report a post
OkLines == { i \in DOMAIN stdout : stdout[i].line = "ok" }

\* C22: at the end of a run that got to the getPostData calls there is one
\* line for each call that returned a post and one for each call that
\* failed, the report of a rejection counted among the latter.
C22_OneLinePerFile ==
    (pc = "exited" /\ cause # "readdirSync") =>
        /\ Cardinality(OkLines) = Cardinality(IngestedOk)
        /\ Cardinality(FailureLines) + Len(stderr) = Cardinality(IngestedFailed)

\* C23: a file whose header has no title has no entry in the written feed,
\* and no failure is logged for it.
C23_UntitledFileIsExcluded ==
    FeedWritten =>
        \A i \in DOMAIN dir :
            ( /\ IsMarkdown(dir[i])
              /\ "invalid" \notin DOMAIN dir[i].front
              /\ dir[i].front.title = Undefined )
            => \A j \in DOMAIN Feed : Feed[j].slug # dir[i].name

\* every getPostData call has been made and its promise is fulfilled
AllSettled ==
    /\ next > Len(fileNames)
    /\ Len(results) = Len(fileNames)
    /\ \A k \in DOMAIN results : results[k].t \in {"Post", "undefined"}

\* C25: the filter and the sort, the log and the write of the target happen
\* with every getPostData call made and settled, a failed one included.
C25_WriteAfterAllIngestions ==
    (pc \in {"sort", "log", "open", "write", "resolved"} \/ out # before)
        => AllSettled

\* the target being written from three files, one of which failed
C25_Witness ==
    /\ pc = "write" /\ out # before
    /\ Len(fileNames) = 3
    /\ \E k \in DOMAIN results : results[k] = Undefined

\* the '.md' files of the directory
MarkdownFiles == { i \in DOMAIN dir : EndsWith(dir[i].name, ".md") }

\* C26: the files mapped over are '.md' files of the directory; every slug
\* of the written feed is the name of one, and the feed has no more entries
\* than there are.
C26_OnlyMarkdownIsIngested ==
    /\ Mapping =>
          /\ \A k \in DOMAIN fileNames :
                \E i \in MarkdownFiles : dir[i].name = fileNames[k].name
          /\ Len(results) <= Cardinality(MarkdownFiles)
    /\ (FeedWritten /\ pc = "resolved") =>
          /\ \A j \in DOMAIN Feed :
                \E i \in MarkdownFiles : dir[i].name = Feed[j].slug
          /\ Len(Feed) <= Cardinality(MarkdownFiles)

\* a feed written from a directory that holds a published file of another
\* extension next to a published post
C26_Witness ==
    /\ FeedWritten /\ pc = "resolved"
    /\ Len(Feed) = 1
    /\ \E i \in DOMAIN dir :
          /\ ~EndsWith(dir[i].name, ".md")
          /\ PublishedTrue(dir[i])

\* C29: the post made of a file has the file's name as its slug and the
\* contentHtml and excerptHtml computed from the file's body, whatever keys
\* the header holds; and so has its entry in the written feed.
C29_ComputedFieldsOverrideHeader ==
    /\ Mapping => \A k \in DOMAIN results :
          results[k].t = "Post" =>
              /\ results[k].slug = fileNames[k].name
              /\ results[k].contentHtml = MarkedParse(fileNames[k].front.content)
              /\ results[k].excerptHtml
                    = ExcerptHtml(MarkedParse(fileNames[k].front.content))
    /\ (FeedWritten /\ pc = "resolved") =>
          \A j \in DOMAIN Feed :
              \E k \in DOMAIN fileNames :
                  /\ Feed[j].slug = fileNames[k].name
                  /\ Feed[j].contentHtml = MarkedParse(fileNames[k].front.content)
                  /\ Feed[j].excerptHtml
                        = ExcerptHtml(MarkedParse(fileNames[k].front.content))

\* the written feed holds the post of a file whose header has a slug, a
\* contentHtml and an excerptHtml of its own
C29_Witness ==
    /\ FeedWritten
    /\ \E j \in DOMAIN Feed : \E k \in DOMAIN fileNames :
          /\ Feed[j].slug = fileNames[k].name
          /\ {"slug", "contentHtml", "excerptHtml"} \subseteq DOMAIN fileNames[k].front
          /\ fileNames[k].front.slug # Feed[j].slug

\* a readable file with a valid header whose tags key holds a value that is
\* no string: a value without a split method, or null
TagsNotAString(f) ==
    /\ f.readable
    /\ "invalid" \notin DOMAIN f.front
    /\ f.front.tags.t \notin {"undefined", "string"}

\* what is said of the k-th call when the tags of its file are at fault: no
\* post, every failure logged once, no rejection of the run unless a file
\* cannot be read, and the written feed without the file and with the
\* published posts of the others
TagsFailure(k) ==
    /\ results[k] = Undefined
    /\ Cardinality(FailureLines)
          = Cardinality({ n \in DOMAIN results : results[n] = Undefined })
    /\ (\A n \in DOMAIN fileNames : fileNames[n].readable) => cause # "getPostData"
    /\ FeedWritten =>
          /\ \A j \in DOMAIN Feed : Feed[j].slug # fileNames[k].name
          /\ \A n \in DOMAIN results :
                (results[n].t = "Post" /\ IsPublished(results[n]))
                => \E j \in DOMAIN Feed : Feed[j].slug = fileNames[n].name

\* C30, as stated: for every file whose tags are present and no string.
C30_NonStringTagsFail ==
    \A k \in DOMAIN results : TagsNotAString(fileNames[k]) => TagsFailure(k)

\* C30: for every file whose tags are present, no string and not null
\* (a sequence): the call logs the failure and returns no post, the file is
\* not in the feed, and the other files are ingested and written.
C30_NonNullNonStringTagsFail ==
    \A k \in DOMAIN results :
        (TagsNotAString(fileNames[k]) /\ fileNames[k].front.tags # Null)
        => TagsFailure(k)

\* a feed written from three files, one of them with a sequence of tags
C30_Witness ==
    /\ FeedWritten
    /\ Len(fileNames) = 3 /\ Len(Feed) >= 1
    /\ \E k \in DOMAIN results :
          TagsNotAString(fileNames[k]) /\ fileNames[k].front.tags.t = "array"

-----------------------------------------------------------------------------
(* Properties of the effects *)

\* C28: no step changes a content file; the target changes only inside the
\* one writeFileSync call of the run, which a run that resolves has made
\* exactly once; and a getPostData call leaves the records of the earlier
\* calls as they are, its own being the one of its file alone.
C28_OnlyTheTargetOnce ==
    [][ /\ dir' = dir
        /\ out' # out => (pc \in {"open", "write"} /\ writes' = 1)
        /\ writes' <= 1
        /\ pc' = "resolved" => writes' = 1
        /\ (pc = "map" /\ pc' = "map") =>
              /\ \A k \in DOMAIN results : results'[k] = results[k]
              /\ results'[Len(results')] = GetPostData(fileNames[next]).value
      ]_vars

\* a run over three files that has written the target over an earlier one
C28_Witness ==
    /\ pc = "resolved" /\ writes = 1
    /\ Len(fileNames) = 3
    /\ before = Earlier /\ out # before

-----------------------------------------------------------------------------
(* Properties of the life of a run *)

\* the script has been started and its process has not exited
Running == pc \notin {"exited", "served"}

\* the two ways a run ends: the feed written and nothing reported; or
\* something reported, by a logged exception or on stderr, with the feed
\* written from the other files or not at all
Success ==
    /\ cause = "none"
    /\ out = [exists |-> TRUE, data |-> JsonStringify(posts)]
    /\ FailureLines = {} /\ stderr = << >>

ReportedFailure == FailureLines # {} \/ stderr # << >>

\* C27: a running script always gets to the exit of its process, and is
\* then in exactly one of the two outcomes.
C27_RunEnds ==
    Running ~> (pc = "exited" /\ (Success # ReportedFailure))

\* a run that has ended with one failure logged and the feed of the other
\* files written
C27_Witness ==
    /\ pc = "exited" /\ cause = "none"
    /\ Cardinality(FailureLines) = 1
    /\ Len(Feed) >= 1

====
